---- MODULE Spec2Model ----
(***************************************************************************)
(* Model of monitor.py: the sampling loop run_metrics with its probes      *)
(* (collect_cpu_metrics, collect_gpu_metrics, collect_ram_metrics,         *)
(* collect_disk_metrics), the publication to the Tk variables (update_gui) *)
(* and the batched persistence (write_to_database) into the SQLite table   *)
(* metrics created by initialize_database.                                 *)
(*                                                                         *)
(* Units.  Python floats are modelled by integers:                         *)
(*   raw CPU / RAM readings   tenths of a percent (psutil's resolution)    *)
(*   GPU load                 1e-5 of the load fraction                    *)
(*   disk counters            bytes                                        *)
(*   every value rounded by round(x, 2)   hundredths                       *)
(* round(x, 2) is round-half-to-even on the value of the double x.  The    *)
(* readings below are chosen so that every tie is an exactly representable *)
(* double (multiples of 0.5 %, byte deltas divided by 2^20), where the     *)
(* double's value and the rational value agree.                            *)
(***************************************************************************)
EXTENDS Integers, Sequences, FiniteSets, TLC

(***************************************************************************)
(* Program constants                                                       *)
(***************************************************************************)
BUFFER_SIZE == 60

cpu_avg_num == 8

(***************************************************************************)
(* Bounds of the model                                                     *)
(***************************************************************************)
\* loop iterations explored by Spec (two full batches and a little more)
MaxTicks == 125

\* loop iterations explored by SpecCpu (the window of 8 overflows)
MaxCpuTicks == 9

\* loop iterations explored by SpecDisk (baseline and two samples)
MaxDiskTicks == 3

\* loop iterations explored statement by statement by SpecGui
MaxGuiTicks == 4

(***************************************************************************)
(* Environment: what the probes and the clock can deliver                  *)
(***************************************************************************)
MB == 1024 * 1024

\* psutil.cpu_percent(interval=1), tenths of a percent
CpuReadings == {0, 125, 1000}

\* disk_io.read_bytes / disk_io.write_bytes, cumulative bytes
ReadCounters == {100 * MB, 150 * MB, 150 * MB + 131072, 40 * MB}

WriteCounters == {200 * MB, 260 * MB, 10 * MB, 260 * MB + 5243}

\* GPUtil.getGPUs(): no device, or one device with its load
GpuLists == {<< >>, << [load |-> 37123] >>}

\* The readings of the long run of Spec are a fixed script of the tick number
CpuScript == <<0, 125, 1000, 500, 125, 125, 1000>>

ScriptCpu(k) == CpuScript[(k % Len(CpuScript)) + 1]

ScriptRam(k) == 400 + ((k * 7) % 50)

ScriptRead(k) == 100 * MB + k * 131072

ScriptWrite(k) == 200 * MB + k * (MB + 5243)

(***************************************************************************)
(* State                                                                   *)
(***************************************************************************)
VARIABLES
    pc,               \* "start": before initialize_database; "loop": run_metrics
                      \* is iterating; "dead": run_metrics ended by an exception;
                      \* "publish", "flush": inside an iteration taken
                      \* statement by statement, at line 67 and at line 69
    tableExists,      \* the table metrics exists in system_metrics.db
    metrics,          \* committed rows of the table, in id order
    sqlite_sequence,  \* largest id AUTOINCREMENT has handed out and committed
    txn,              \* rows inserted by the sampler's open transaction: not
                      \* committed, so no other connection sees them
    GPUs,             \* what GPUtil.getGPUs() returns on this host
    clock,            \* wall clock in half seconds; a tick takes the 1 s of
                      \* cpu_percent(interval=1) and, when it reaches line 73,
                      \* the 0.5 s of the sleep
    old_read, old_write, cpu_percentages, initial_cycle, data_buffer,
    remaining_time, cpu_label_var, gpu_label_var, ram_label_var,
    read_speed_var, write_speed_var,
    setting,          \* StringVar.set calls the running update_gui has made
    seen,             \* the six label texts as the GUI thread last drew them
    ticks,            \* history: loop iterations begun
    cpuRaw,           \* history: raw CPU readings, one per tick
    diskRaw,          \* history: raw disk counters <<read, write>>, one per tick
    cpuOut,           \* history: value returned by the latest collect_cpu_metrics
    diskOut,          \* history: speeds returned by the latest collect_disk_metrics
    emitted,          \* history: every Sample appended to data_buffer
    published,        \* history: number of update_gui calls
    calls,            \* history: number of write_to_database calls
    lastBatch,        \* history: argument of the latest write_to_database call
    row0              \* history: number of rows in the table at start-up

vars == <<pc, tableExists, metrics, sqlite_sequence, txn, GPUs, clock,
          old_read, old_write, cpu_percentages, initial_cycle, data_buffer,
          remaining_time, cpu_label_var, gpu_label_var, ram_label_var,
          read_speed_var, write_speed_var, setting, seen,
          ticks, cpuRaw, diskRaw, cpuOut, diskOut, emitted, published, calls,
          lastBatch, row0>>

(***************************************************************************)
(* Pure helpers                                                            *)
(***************************************************************************)
RECURSIVE Sum(_)
Sum(s) == IF s = << >> THEN 0 ELSE Head(s) + Sum(Tail(s))

\* round-half-to-even of n / d, for n >= 0 and d > 0
RoundHalfEven(n, d) ==
    LET q == n \div d
        r == n % d
    IN  IF 2 * r < d THEN q
        ELSE IF 2 * r > d THEN q + 1
        ELSE IF q % 2 = 0 THEN q ELSE q + 1

\* round() replaced by truncation towards zero
Round2_truncating(n, d) ==
    LET a == IF n < 0 THEN 0 - n ELSE n
        m == (a \div d) * 100 + (((a % d) * 100) \div d)
    IN  IF n < 0 THEN 0 - m ELSE m

\* round(n / d, 2) in hundredths, n any integer, d > 0; the whole part is
\* split off first so that no intermediate product leaves 32 bits
Round2(n, d) ==
    LET a == IF n < 0 THEN 0 - n ELSE n
        m == (a \div d) * 100 + RoundHalfEven((a % d) * 100, d)
    IN  IF n < 0 THEN 0 - m ELSE m

\* time.strftime("%Y-%m-%d %H:%M:%S") of a clock value: <<day, HH, MM, SS>>
strftime(c) ==
    LET s == c \div 2
    IN  <<s \div 86400, (s \div 3600) % 24, (s \div 60) % 60, s % 60>>

(***************************************************************************)
(* Probes                                                                  *)
(***************************************************************************)
\* pop() in place of pop(0): the newest reading is dropped
collect_cpu_metrics_popnewest(window, n, cpu_percent) ==
    LET appended == Append(window, cpu_percent)
        w == IF Len(appended) > n
             THEN SubSeq(appended, 1, Len(appended) - 1)
             ELSE appended
    IN  [window |-> w, value |-> Round2(Sum(w) * 10, Len(w) * 100)]

\* collect_cpu_metrics: the window after the call and the value returned
collect_cpu_metrics(window, n, cpu_percent) ==
    LET appended == Append(window, cpu_percent)
        w == IF Len(appended) > n THEN Tail(appended) ELSE appended
    IN  [window |-> w, value |-> Round2(Sum(w) * 10, Len(w) * 100)]

collect_gpu_metrics(gpus) ==
    IF gpus # << >> THEN Round2(gpus[1].load, 1000) ELSE 0

collect_ram_metrics(percent) == Round2(percent, 10)

\* the first-cycle branch left out
collect_disk_metrics_nobaseline(o_read, o_write, initial, new_read, new_write) ==
    <<Round2(new_read - o_read, MB), Round2(new_write - o_write, MB),
      new_read, new_write>>

\* the counters of the first cycle kept as the reference for ever
collect_disk_metrics_stale(o_read, o_write, initial, new_read, new_write) ==
    IF initial
    THEN <<0, 0, new_read, new_write>>
    ELSE <<Round2(new_read - o_read, MB), Round2(new_write - o_write, MB),
           o_read, o_write>>

\* collect_disk_metrics: <<read_speed, write_speed, new_read, new_write>>
collect_disk_metrics(o_read, o_write, initial, new_read, new_write) ==
    IF initial
    THEN <<0, 0, new_read, new_write>>
    ELSE <<Round2(new_read - o_read, MB), Round2(new_write - o_write, MB),
           new_read, new_write>>

(***************************************************************************)
(* Publication and persistence                                             *)
(***************************************************************************)
\* f"Time until next save: {n}s"
RemainingText(n) == <<"Time until next save: ", n, "s">>

\* the fill level counted before the append
update_gui_beforeappend(cpu_percent, gpu_percent, ram_percent, read_speed, write_speed, buffer) ==
    [remaining_time |-> RemainingText(BUFFER_SIZE - Len(buffer) + 1),
     cpu_label_var |-> <<cpu_percent, "%">>,
     gpu_label_var |-> <<gpu_percent, "%">>,
     ram_label_var |-> <<ram_percent, "%">>,
     read_speed_var |-> <<read_speed, " MB/s">>,
     write_speed_var |-> <<write_speed, " MB/s">>]

\* the fill level of the batch the next tick will extend
update_gui_nextbatch(cpu_percent, gpu_percent, ram_percent, read_speed, write_speed, buffer) ==
    [remaining_time |->
         RemainingText(BUFFER_SIZE - ((Len(buffer) % BUFFER_SIZE) + 1)),
     cpu_label_var |-> <<cpu_percent, "%">>,
     gpu_label_var |-> <<gpu_percent, "%">>,
     ram_label_var |-> <<ram_percent, "%">>,
     read_speed_var |-> <<read_speed, " MB/s">>,
     write_speed_var |-> <<write_speed, " MB/s">>]

\* update_gui: the six StringVars after the call
update_gui(cpu_percent, gpu_percent, ram_percent, read_speed, write_speed, buffer) ==
    [remaining_time |-> RemainingText(BUFFER_SIZE - Len(buffer)),
     cpu_label_var |-> <<cpu_percent, "%">>,
     gpu_label_var |-> <<gpu_percent, "%">>,
     ram_label_var |-> <<ram_percent, "%">>,
     read_speed_var |-> <<read_speed, " MB/s">>,
     write_speed_var |-> <<write_speed, " MB/s">>]

\* the flush test never true
BufferFull_never(buffer) == FALSE

\* > in place of >=
BufferFull_late(buffer) == Len(buffer) > BUFFER_SIZE

\* flush one sample early
BufferFull_early(buffer) == Len(buffer) >= BUFFER_SIZE - 1

\* line 69: the flush trigger
BufferFull(buffer) == Len(buffer) >= BUFFER_SIZE

\* What can happen to one write_to_database call: it returns, or one of its
\* three statements raises; executemany raises after rows of the tuples
FlushOutcomes(buffer) ==
    {[at |-> a, rows |-> 0] : a \in {"none", "begin", "commit"}}
    \cup {[at |-> "insert", rows |-> j] : j \in 0 .. Len(buffer) - 1}

Returns == [at |-> "none", rows |-> 0]

\* the batch inserted last tuple first
InsertedRows_reversed(seqno, buffer, k) ==
    [i \in 1 .. k |-> [id |-> seqno + i, sample |-> buffer[k + 1 - i]]]

\* rows the INSERT gives to the first k tuples of the buffer
InsertedRows(seqno, buffer, k) ==
    [i \in 1 .. k |-> [id |-> seqno + i, sample |-> buffer[i]]]

\* the last tuple of the batch left out of the INSERT
write_to_database_lossy(table, seqno, buffer, outcome) ==
    IF outcome.at = "none"
    THEN [metrics |-> table \o InsertedRows(seqno, buffer, Len(buffer) - 1),
          sqlite_sequence |-> seqno + Len(buffer) - 1,
          txn |-> << >>,
          raised |-> FALSE]
    ELSE [metrics |-> table,
          sqlite_sequence |-> seqno,
          txn |-> << >>,
          raised |-> TRUE]

\* no transaction: every inserted row is committed on its own
write_to_database_autocommit(table, seqno, buffer, outcome) ==
    LET k == IF outcome.at = "none" \/ outcome.at = "commit" THEN Len(buffer)
             ELSE IF outcome.at = "begin" THEN 0
             ELSE outcome.rows
    IN  [metrics |-> table \o InsertedRows(seqno, buffer, k),
         sqlite_sequence |-> seqno + k,
         txn |-> << >>,
         raised |-> outcome.at # "none"]

\* write_to_database: committed table, sequence and open transaction after
\* the call, and whether it raised
write_to_database(table, seqno, buffer, outcome) ==
    IF outcome.at = "none"
    THEN [metrics |-> table \o InsertedRows(seqno, buffer, Len(buffer)),
          sqlite_sequence |-> seqno + Len(buffer),
          txn |-> << >>,
          raised |-> FALSE]
    ELSE [metrics |-> table,
          sqlite_sequence |-> seqno,
          txn |-> InsertedRows(seqno, buffer,
                               IF outcome.at = "begin" THEN 0
                               ELSE IF outcome.at = "commit" THEN Len(buffer)
                               ELSE outcome.rows),
          raised |-> TRUE]

\* DROP TABLE and CREATE TABLE in place of CREATE TABLE IF NOT EXISTS
initialize_database_recreate(db) == [exists |-> TRUE, rows |-> << >>]

\* initialize_database: CREATE TABLE IF NOT EXISTS leaves an existing table alone
initialize_database(db) == [exists |-> TRUE, rows |-> db.rows]

(***************************************************************************)
(* Initial states                                                          *)
(***************************************************************************)
\* a batch left in the table by an earlier run of the program
PreviousBatch ==
    [i \in 1 .. BUFFER_SIZE |->
        [id |-> i, sample |-> <<strftime(2 * i), 500, 0, 4000, 0, 100>>]]

\* system_metrics.db as a run can find it: no table, an empty table, or rows
\* of an earlier run
Databases ==
    {[exists |-> FALSE, rows |-> << >>],
     [exists |-> TRUE, rows |-> << >>],
     [exists |-> TRUE, rows |-> PreviousBatch]}

InitWith(db, gpus) ==
    /\ pc = "start"
    /\ tableExists = db.exists
    /\ metrics = db.rows
    /\ sqlite_sequence = Len(db.rows)
    /\ txn = << >>
    /\ GPUs = gpus
    /\ clock = 2 * 86400
    /\ old_read = 0
    /\ old_write = 0
    /\ cpu_percentages = << >>
    /\ initial_cycle = TRUE
    /\ data_buffer = << >>
    /\ remaining_time = << >>
    /\ cpu_label_var = << >>
    /\ gpu_label_var = << >>
    /\ ram_label_var = << >>
    /\ read_speed_var = << >>
    /\ write_speed_var = << >>
    /\ setting = 0
    /\ seen = << >>
    /\ ticks = 0
    /\ cpuRaw = << >>
    /\ diskRaw = << >>
    /\ cpuOut = 0
    /\ diskOut = <<0, 0>>
    /\ emitted = << >>
    /\ published = 0
    /\ calls = 0
    /\ lastBatch = << >>
    /\ row0 = Len(db.rows)

Init == \E db \in Databases : \E gpus \in GpuLists : InitWith(db, gpus)

InitProbe == InitWith([exists |-> FALSE, rows |-> << >>], << >>)

(***************************************************************************)
(* Actions                                                                 *)
(***************************************************************************)
\* __main__ up to root.mainloop(): the table is created, the StringVars are
\* made and the sampler thread is started
Main ==
    /\ pc = "start"
    /\ LET db == initialize_database([exists |-> tableExists, rows |-> metrics])
       IN  /\ tableExists' = db.exists
           /\ metrics' = db.rows
    /\ remaining_time' = <<"Initializing">>
    /\ pc' = "loop"
    /\ UNCHANGED <<sqlite_sequence, txn, GPUs, clock, old_read, old_write,
                   cpu_percentages, initial_cycle, data_buffer,
                   cpu_label_var, gpu_label_var, ram_label_var,
                   read_speed_var, write_speed_var, setting, seen,
                   ticks, cpuRaw, diskRaw, cpuOut, diskOut, emitted,
                   published, calls, lastBatch, row0>>

\* the first cycle not skipped: lines 62-64 left out
run_metrics_nowarmup(raw_cpu, raw_ram, new_read, new_write, outcomes) ==
    /\ pc = "loop"
    /\ LET timestamp == strftime(clock)
           cpu == collect_cpu_metrics(cpu_percentages, cpu_avg_num, raw_cpu)
           gpu_percent == collect_gpu_metrics(GPUs)
           ram_percent == collect_ram_metrics(raw_ram)
           disk == collect_disk_metrics(old_read, old_write, initial_cycle,
                                        new_read, new_write)
           sample == <<timestamp, cpu.value, gpu_percent, ram_percent,
                       disk[1], disk[2]>>
           buffer == Append(data_buffer, sample)
           gui == update_gui(cpu.value, gpu_percent, ram_percent,
                             disk[1], disk[2], buffer)
           flush(outcome) ==
               write_to_database(metrics, sqlite_sequence, buffer, outcome)
       IN  /\ cpu_percentages' = cpu.window
           /\ old_read' = disk[3]
           /\ old_write' = disk[4]
           /\ initial_cycle' = FALSE
           /\ ticks' = ticks + 1
           /\ cpuRaw' = Append(cpuRaw, raw_cpu)
           /\ diskRaw' = Append(diskRaw, <<new_read, new_write>>)
           /\ cpuOut' = cpu.value
           /\ diskOut' = <<disk[1], disk[2]>>
           /\ IF FALSE
              THEN \* line 64: continue, without the sleep
                   /\ clock' = clock + 2
                   /\ UNCHANGED <<pc, metrics, sqlite_sequence, txn, data_buffer,
                                  remaining_time, cpu_label_var, gpu_label_var,
                                  ram_label_var, read_speed_var, write_speed_var,
                                  emitted, published, calls, lastBatch>>
              ELSE /\ emitted' = Append(emitted, sample)
                   /\ published' = published + 1
                   /\ remaining_time' = gui.remaining_time
                   /\ cpu_label_var' = gui.cpu_label_var
                   /\ gpu_label_var' = gui.gpu_label_var
                   /\ ram_label_var' = gui.ram_label_var
                   /\ read_speed_var' = gui.read_speed_var
                   /\ write_speed_var' = gui.write_speed_var
                   /\ IF BufferFull(buffer)
                      THEN \E outcome \in FlushOutcomes(buffer) \cap outcomes :
                           /\ calls' = calls + 1
                           /\ lastBatch' = buffer
                           /\ metrics' = flush(outcome).metrics
                           /\ sqlite_sequence' = flush(outcome).sqlite_sequence
                           /\ txn' = flush(outcome).txn
                           /\ IF flush(outcome).raised
                              THEN \* the exception leaves run_metrics: the
                                   \* thread ends, line 71 is not reached
                                   /\ pc' = "dead"
                                   /\ data_buffer' = buffer
                                   /\ clock' = clock + 2
                              ELSE /\ pc' = pc
                                   /\ data_buffer' = << >>
                                   /\ clock' = clock + 3
                      ELSE /\ data_buffer' = buffer
                           /\ clock' = clock + 3
                           /\ UNCHANGED <<pc, metrics, sqlite_sequence, txn,
                                          calls, lastBatch>>
    /\ UNCHANGED <<tableExists, GPUs, row0, setting, seen>>

\* One iteration of the while loop of run_metrics (lines 56-73) on the
\* readings raw_cpu, raw_ram, new_read, new_write, with the database
\* answering the flush, if there is one, by one of outcomes
run_metrics(raw_cpu, raw_ram, new_read, new_write, outcomes) ==
    /\ pc = "loop"
    /\ LET timestamp == strftime(clock)
           cpu == collect_cpu_metrics(cpu_percentages, cpu_avg_num, raw_cpu)
           gpu_percent == collect_gpu_metrics(GPUs)
           ram_percent == collect_ram_metrics(raw_ram)
           disk == collect_disk_metrics(old_read, old_write, initial_cycle,
                                        new_read, new_write)
           sample == <<timestamp, cpu.value, gpu_percent, ram_percent,
                       disk[1], disk[2]>>
           buffer == Append(data_buffer, sample)
           gui == update_gui(cpu.value, gpu_percent, ram_percent,
                             disk[1], disk[2], buffer)
           flush(outcome) ==
               write_to_database(metrics, sqlite_sequence, buffer, outcome)
       IN  /\ cpu_percentages' = cpu.window
           /\ old_read' = disk[3]
           /\ old_write' = disk[4]
           /\ initial_cycle' = FALSE
           /\ ticks' = ticks + 1
           /\ cpuRaw' = Append(cpuRaw, raw_cpu)
           /\ diskRaw' = Append(diskRaw, <<new_read, new_write>>)
           /\ cpuOut' = cpu.value
           /\ diskOut' = <<disk[1], disk[2]>>
           /\ IF initial_cycle
              THEN \* line 64: continue, without the sleep
                   /\ clock' = clock + 2
                   /\ UNCHANGED <<pc, metrics, sqlite_sequence, txn, data_buffer,
                                  remaining_time, cpu_label_var, gpu_label_var,
                                  ram_label_var, read_speed_var, write_speed_var,
                                  emitted, published, calls, lastBatch>>
              ELSE /\ emitted' = Append(emitted, sample)
                   /\ published' = published + 1
                   /\ remaining_time' = gui.remaining_time
                   /\ cpu_label_var' = gui.cpu_label_var
                   /\ gpu_label_var' = gui.gpu_label_var
                   /\ ram_label_var' = gui.ram_label_var
                   /\ read_speed_var' = gui.read_speed_var
                   /\ write_speed_var' = gui.write_speed_var
                   /\ IF BufferFull(buffer)
                      THEN \E outcome \in FlushOutcomes(buffer) \cap outcomes :
                           /\ calls' = calls + 1
                           /\ lastBatch' = buffer
                           /\ metrics' = flush(outcome).metrics
                           /\ sqlite_sequence' = flush(outcome).sqlite_sequence
                           /\ txn' = flush(outcome).txn
                           /\ IF flush(outcome).raised
                              THEN \* the exception leaves run_metrics: the
                                   \* thread ends, line 71 is not reached
                                   /\ pc' = "dead"
                                   /\ data_buffer' = buffer
                                   /\ clock' = clock + 2
                              ELSE /\ pc' = pc
                                   /\ data_buffer' = << >>
                                   /\ clock' = clock + 3
                      ELSE /\ data_buffer' = buffer
                           /\ clock' = clock + 3
                           /\ UNCHANGED <<pc, metrics, sqlite_sequence, txn,
                                          calls, lastBatch>>
    /\ UNCHANGED <<tableExists, GPUs, row0, setting, seen>>

\* the probes of one iteration, in the order lines 57-60 call them
Probes == <<"cpu", "gpu", "ram", "disk">>

\* An iteration in which the call of probe raises (psutil or GPUtil fails, or
\* disk_io_counters() returns None and line 128 reads an attribute of it):
\* run_metrics catches nothing, so the exception leaves the while loop and the
\* thread ends.  A probe after collect_cpu_metrics raises with the window
\* already extended by the reading raw_cpu
ProbeRaises(probe, raw_cpu) ==
    /\ pc = "loop"
    /\ probe \in {Probes[i] : i \in 1 .. Len(Probes)}
    /\ pc' = "dead"
    /\ ticks' = ticks + 1
    /\ LET cpu == collect_cpu_metrics(cpu_percentages, cpu_avg_num, raw_cpu)
       IN  IF probe = "cpu"
           THEN UNCHANGED <<cpu_percentages, cpuRaw, cpuOut, clock>>
           ELSE /\ cpu_percentages' = cpu.window
                /\ cpuRaw' = Append(cpuRaw, raw_cpu)
                /\ cpuOut' = cpu.value
                /\ clock' = clock + 2
    /\ UNCHANGED <<tableExists, metrics, sqlite_sequence, txn, GPUs,
                   old_read, old_write, initial_cycle, data_buffer,
                   remaining_time, cpu_label_var, gpu_label_var, ram_label_var,
                   read_speed_var, write_speed_var, setting, seen,
                   diskRaw, diskOut, emitted, published, calls, lastBatch, row0>>

\* the texts of the six labels, in the order update_gui sets their variables
LabelsOf(g) ==
    <<g.remaining_time, g.cpu_label_var, g.gpu_label_var, g.ram_label_var,
      g.read_speed_var, g.write_speed_var>>

\* The iteration taken statement by statement, so that the GUI thread can run
\* between the statements.  Lines 56-66: the probes and the append
Collect(raw_cpu, raw_ram, new_read, new_write) ==
    /\ pc = "loop"
    /\ LET timestamp == strftime(clock)
           cpu == collect_cpu_metrics(cpu_percentages, cpu_avg_num, raw_cpu)
           gpu_percent == collect_gpu_metrics(GPUs)
           ram_percent == collect_ram_metrics(raw_ram)
           disk == collect_disk_metrics(old_read, old_write, initial_cycle,
                                        new_read, new_write)
           sample == <<timestamp, cpu.value, gpu_percent, ram_percent,
                       disk[1], disk[2]>>
       IN  /\ cpu_percentages' = cpu.window
           /\ old_read' = disk[3]
           /\ old_write' = disk[4]
           /\ initial_cycle' = FALSE
           /\ ticks' = ticks + 1
           /\ cpuRaw' = Append(cpuRaw, raw_cpu)
           /\ diskRaw' = Append(diskRaw, <<new_read, new_write>>)
           /\ cpuOut' = cpu.value
           /\ diskOut' = <<disk[1], disk[2]>>
           /\ clock' = clock + 2
           /\ IF initial_cycle
              THEN UNCHANGED <<pc, data_buffer, emitted>>
              ELSE /\ data_buffer' = Append(data_buffer, sample)
                   /\ emitted' = Append(emitted, sample)
                   /\ pc' = "publish"
    /\ UNCHANGED <<tableExists, metrics, sqlite_sequence, txn, GPUs,
                   remaining_time, cpu_label_var, gpu_label_var, ram_label_var,
                   read_speed_var, write_speed_var, setting, seen,
                   published, calls, lastBatch, row0>>

\* Lines 153-158: the next of the six StringVar.set calls of update_gui
SetVar ==
    /\ pc = "publish"
    /\ LET sample == data_buffer[Len(data_buffer)]
           gui == update_gui(sample[2], sample[3], sample[4], sample[5],
                             sample[6], data_buffer)
       IN  /\ remaining_time' =
                  IF setting = 0 THEN gui.remaining_time ELSE remaining_time
           /\ cpu_label_var' =
                  IF setting = 1 THEN gui.cpu_label_var ELSE cpu_label_var
           /\ gpu_label_var' =
                  IF setting = 2 THEN gui.gpu_label_var ELSE gpu_label_var
           /\ ram_label_var' =
                  IF setting = 3 THEN gui.ram_label_var ELSE ram_label_var
           /\ read_speed_var' =
                  IF setting = 4 THEN gui.read_speed_var ELSE read_speed_var
           /\ write_speed_var' =
                  IF setting = 5 THEN gui.write_speed_var ELSE write_speed_var
    /\ setting' = IF setting = 5 THEN 0 ELSE setting + 1
    /\ pc' = IF setting = 5 THEN "flush" ELSE pc
    /\ published' = IF setting = 5 THEN published + 1 ELSE published
    /\ UNCHANGED <<tableExists, metrics, sqlite_sequence, txn, GPUs, clock,
                   old_read, old_write, cpu_percentages, initial_cycle,
                   data_buffer, seen, ticks, cpuRaw, diskRaw, cpuOut, diskOut,
                   emitted, calls, lastBatch, row0>>

\* Lines 69-73: the flush when the buffer is full, then the sleep
FlushOrSleep(outcomes) ==
    /\ pc = "flush"
    /\ IF BufferFull(data_buffer)
       THEN \E outcome \in FlushOutcomes(data_buffer) \cap outcomes :
               LET db == write_to_database(metrics, sqlite_sequence,
                                           data_buffer, outcome)
               IN  /\ calls' = calls + 1
                   /\ lastBatch' = data_buffer
                   /\ metrics' = db.metrics
                   /\ sqlite_sequence' = db.sqlite_sequence
                   /\ txn' = db.txn
                   /\ pc' = IF db.raised THEN "dead" ELSE "loop"
                   /\ data_buffer' = IF db.raised THEN data_buffer ELSE << >>
                   /\ clock' = IF db.raised THEN clock ELSE clock + 1
       ELSE /\ pc' = "loop"
            /\ clock' = clock + 1
            /\ UNCHANGED <<metrics, sqlite_sequence, txn, data_buffer, calls,
                           lastBatch>>
    /\ UNCHANGED <<tableExists, GPUs, old_read, old_write, cpu_percentages,
                   initial_cycle, remaining_time, cpu_label_var, gpu_label_var,
                   ram_label_var, read_speed_var, write_speed_var, setting,
                   seen, ticks, cpuRaw, diskRaw, cpuOut, diskOut, emitted,
                   published, row0>>

\* root.mainloop() (line 251) on the main thread: Tk redraws the labels from
\* their textvariables (lines 222, 224) whenever it is idle, also between two
\* set calls of the sampler thread
Redraw ==
    /\ pc # "start"
    /\ seen' = <<remaining_time, cpu_label_var, gpu_label_var, ram_label_var,
                 read_speed_var, write_speed_var>>
    /\ UNCHANGED <<pc, tableExists, metrics, sqlite_sequence, txn, GPUs, clock,
                   old_read, old_write, cpu_percentages, initial_cycle,
                   data_buffer, remaining_time, cpu_label_var, gpu_label_var,
                   ram_label_var, read_speed_var, write_speed_var, setting,
                   ticks, cpuRaw, diskRaw, cpuOut, diskOut, emitted, published,
                   calls, lastBatch, row0>>

\* every way a flush can end, for a buffer of any length the loop can build
AllOutcomes == FlushOutcomes([i \in 1 .. BUFFER_SIZE + 1 |-> 0])

\* the long run: scripted readings, any outcome of each flush
Tick ==
    /\ ticks < MaxTicks
    /\ run_metrics(ScriptCpu(ticks), ScriptRam(ticks),
                   ScriptRead(ticks), ScriptWrite(ticks), AllOutcomes)

\* any CPU reading on every tick, the other probes steady
TickCpu ==
    /\ ticks < MaxCpuTicks
    /\ \E raw \in CpuReadings :
          run_metrics(raw, ScriptRam(0), ScriptRead(0), ScriptWrite(0),
                      {Returns})

\* any disk counters on every tick, the other probes steady
TickDisk ==
    /\ ticks < MaxDiskTicks
    /\ \E r \in ReadCounters : \E w \in WriteCounters :
          run_metrics(ScriptCpu(0), ScriptRam(0), r, w, {Returns})

\* the long run with any probe failing on any tick
ProbeFault ==
    /\ ticks < MaxTicks
    /\ \E i \in 1 .. Len(Probes) : ProbeRaises(Probes[i], ScriptCpu(ticks))

\* scripted readings, taken statement by statement
CollectGui ==
    /\ ticks < MaxGuiTicks
    /\ Collect(ScriptCpu(ticks), ScriptRam(ticks),
               ScriptRead(ticks), ScriptWrite(ticks))

FlushGui == FlushOrSleep({Returns})

\* the long run in which every probe and every write succeeds
TickOk ==
    /\ ticks < MaxTicks
    /\ run_metrics(ScriptCpu(ticks), ScriptRam(ticks),
                   ScriptRead(ticks), ScriptWrite(ticks), {Returns})

Next == Main \/ Tick

NextLive == Main \/ TickOk

NextGui == Main \/ CollectGui \/ SetVar \/ FlushGui \/ Redraw

NextFault == Main \/ Tick \/ ProbeFault

NextCpu == Main \/ TickCpu

NextDisk == Main \/ TickDisk

Spec == Init /\ [][Next]_vars

SpecCpu == InitProbe /\ [][NextCpu]_vars

SpecDisk == InitProbe /\ [][NextDisk]_vars

SpecFault == Init /\ [][NextFault]_vars

SpecGui == Init /\ [][NextGui]_vars

\* the main thread reaches line 249 and the sampler thread, once started, is
\* scheduled again and again
SpecLive == Init /\ [][NextLive]_vars /\ WF_vars(Main) /\ WF_vars(TickOk)

(***************************************************************************)
(* Properties                                                              *)
(***************************************************************************)
Abs(x) == IF x < 0 THEN 0 - x ELSE x

Min(a, b) == IF a < b THEN a ELSE b

\* h hundredths is a nearest hundredth to a / d, for a >= 0 and d > 0
NearestNat(h, a, d) ==
    LET k == h - (a \div d) * 100
    IN  /\ k \in 0 .. 100
        /\ 2 * Abs((a % d) * 100 - k * d) <= d

\* h hundredths is n / d rounded to 2 decimals
Nearest2(h, n, d) ==
    IF n < 0 THEN NearestNat(0 - h, 0 - n, d) ELSE NearestNat(h, n, d)

\* the last k elements of s
Last(s, k) == SubSeq(s, Len(s) - k + 1, Len(s))

\* C1: the write_to_database calls are exactly one per BUFFER_SIZE samples
\* appended; the batch of the latest call is the BUFFER_SIZE samples collected
\* since the call before, in collection order; and while the loop runs the
\* buffer holds exactly the samples collected since the latest flush, so it is
\* empty right after a flush and no flush happens before the BUFFER_SIZE-th
\* append
C1_FlushAtCapacity ==
    /\ calls = Len(emitted) \div BUFFER_SIZE
    /\ calls > 0 =>
          lastBatch = SubSeq(emitted, (calls - 1) * BUFFER_SIZE + 1,
                             calls * BUFFER_SIZE)
    /\ pc = "loop" =>
          data_buffer = SubSeq(emitted, calls * BUFFER_SIZE + 1, Len(emitted))

C1_Witness ==
    /\ pc = "loop"
    /\ Len(emitted) = BUFFER_SIZE
    /\ calls = 1
    /\ data_buffer = << >>

\* C2 as stated: after the 61st tick one flush of 60 rows has completed and
\* the fill level published on that tick is "1 of 60" (59 remaining)
C2_AsStated ==
    (ticks = BUFFER_SIZE + 1 /\ pc = "loop") =>
        /\ calls = 1
        /\ Len(metrics) = row0 + BUFFER_SIZE
        /\ remaining_time = RemainingText(BUFFER_SIZE - 1)

\* C2 amended: no flush before the 61st tick; after the 61st tick one flush of
\* 60 rows has completed, and the fill level published on that tick is that of
\* the full buffer, 60 of 60 (0 remaining), published before the flush; "1 of
\* 60" (59 remaining) is what the 62nd tick publishes
C2_EndToEnd ==
    /\ ticks < BUFFER_SIZE + 1 => (calls = 0 /\ Len(metrics) = row0)
    /\ (ticks = BUFFER_SIZE + 1 /\ pc = "loop") =>
          /\ calls = 1
          /\ Len(metrics) = row0 + BUFFER_SIZE
          /\ data_buffer = << >>
          /\ remaining_time = RemainingText(0)
    /\ (ticks = BUFFER_SIZE + 2 /\ pc = "loop") =>
          /\ calls = 1
          /\ Len(metrics) = row0 + BUFFER_SIZE
          /\ remaining_time = RemainingText(BUFFER_SIZE - 1)

C2_Witness ==
    /\ ticks = BUFFER_SIZE + 1
    /\ pc = "loop"
    /\ Len(metrics) = row0 + BUFFER_SIZE

\* C3: the buffer never holds more than BUFFER_SIZE samples, whether the loop
\* is running or a flush has failed
C3_BufferBounded == Len(data_buffer) <= BUFFER_SIZE

C3_Witness ==
    /\ pc = "dead"
    /\ Len(data_buffer) = BUFFER_SIZE

\* C4: the CPU window never exceeds cpu_avg_num readings and always is the
\* latest readings in arrival order, so a reading arriving at a full window
\* evicts the oldest one
C4_WindowBounded ==
    /\ Len(cpu_percentages) <= cpu_avg_num
    /\ cpu_percentages = Last(cpuRaw, Min(cpu_avg_num, Len(cpuRaw)))

C4_Witness ==
    /\ Len(cpuRaw) = cpu_avg_num + 1
    /\ cpuRaw[1] # cpuRaw[2]
    /\ cpuRaw[Len(cpuRaw)] # cpuRaw[Len(cpuRaw) - 1]

\* C5: the value returned by the k-th collect_cpu_metrics call is the mean of
\* the last min(cpu_avg_num, k) raw readings rounded to 2 decimals, k counting
\* the warm-up tick
C5_RoundedMean ==
    ticks >= 1 =>
        LET m == Min(cpu_avg_num, ticks)
        IN  /\ Len(cpuRaw) = ticks
            /\ Nearest2(cpuOut, Sum(Last(cpuRaw, m)) * 10, m * 100)

C5_Witness ==
    /\ ticks > cpu_avg_num
    /\ cpuRaw[1] # cpuRaw[ticks]
    /\ (Sum(Last(cpuRaw, cpu_avg_num)) * 10) % cpu_avg_num # 0

\* C6: the first tick stores the counters it read, reports speeds (0, 0),
\* appends nothing and publishes nothing; the second tick's speeds are the
\* difference of the counters read at ticks 1 and 2
C6_Baseline ==
    /\ ticks = 1 =>
          /\ old_read = diskRaw[1][1]
          /\ old_write = diskRaw[1][2]
          /\ diskOut = <<0, 0>>
          /\ emitted = << >>
          /\ data_buffer = << >>
          /\ published = 0
          /\ remaining_time = <<"Initializing">>
          /\ cpu_label_var = << >>
    /\ ticks = 2 =>
          /\ Nearest2(diskOut[1], diskRaw[2][1] - diskRaw[1][1], MB)
          /\ Nearest2(diskOut[2], diskRaw[2][2] - diskRaw[1][2], MB)
          /\ Len(emitted) = 1
          /\ emitted[1][5] = diskOut[1]
          /\ emitted[1][6] = diskOut[2]

C6_Witness ==
    /\ ticks = 2
    /\ diskRaw[1] = <<100 * MB, 200 * MB>>
    /\ diskRaw[2] = <<150 * MB + 131072, 260 * MB + 5243>>

\* C7: on every tick after the baseline the speeds of the Sample are the
\* difference between the counters of this tick and of the tick before, in MB
\* rounded to 2 decimals, and the stored counters are those of this tick;
\* (100MB, 200MB) then (150MB, 260MB) give 50.0 and 60.0
C7_DeltaPerTick ==
    ticks >= 2 =>
        LET new == diskRaw[ticks]
            old == diskRaw[ticks - 1]
            sample == emitted[Len(emitted)]
        IN  /\ Nearest2(sample[5], new[1] - old[1], MB)
            /\ Nearest2(sample[6], new[2] - old[2], MB)
            /\ old_read = new[1]
            /\ old_write = new[2]
            /\ (old = <<100 * MB, 200 * MB>> /\ new = <<150 * MB, 260 * MB>>) =>
                  (sample[5] = 5000 /\ sample[6] = 6000)

C7_Witness ==
    /\ ticks = 3
    /\ diskRaw[1] = <<40 * MB, 10 * MB>>
    /\ diskRaw[2] = <<100 * MB, 200 * MB>>
    /\ diskRaw[3] = <<150 * MB, 260 * MB>>

\* C8: a counter lower than the one stored from the tick before gives a speed
\* of 0.0 for that direction, and no Sample of the buffer, of the table or of
\* an open transaction has a negative speed
C8_ClampedAtZero ==
    /\ ticks >= 2 =>
          /\ diskRaw[ticks][1] < diskRaw[ticks - 1][1] => diskOut[1] = 0
          /\ diskRaw[ticks][2] < diskRaw[ticks - 1][2] => diskOut[2] = 0
    /\ \A i \in 1 .. Len(data_buffer) :
          data_buffer[i][5] >= 0 /\ data_buffer[i][6] >= 0
    /\ \A i \in 1 .. Len(metrics) :
          metrics[i].sample[5] >= 0 /\ metrics[i].sample[6] >= 0

\* C9: a flush that fails leaves the loop running, with the pending batch
\* dropped from the buffer
C9_LoopSurvivesFailedFlush ==
    calls > 0 => (pc = "loop" /\ Len(data_buffer) < BUFFER_SIZE)

\* C10: of every batch handed to write_to_database either all samples are
\* committed rows, in order, or none is, also when the write raised after
\* some rows; the committed rows always number a multiple of BUFFER_SIZE
C10_AllOrNothing ==
    /\ Len(metrics) % BUFFER_SIZE = 0
    /\ calls > 0 =>
          IF pc = "dead"
          THEN Len(metrics) = row0 + (calls - 1) * BUFFER_SIZE
          ELSE /\ Len(metrics) = row0 + calls * BUFFER_SIZE
               /\ [i \in 1 .. BUFFER_SIZE |->
                      Last(metrics, BUFFER_SIZE)[i].sample] = lastBatch

C10_Witness ==
    /\ pc = "dead"
    /\ calls = 2
    /\ Len(txn) > 0
    /\ Len(txn) < BUFFER_SIZE
    /\ Len(metrics) = row0 + BUFFER_SIZE

\* C11: an iteration in which a probe raises appends no Sample and leaves the
\* loop running, ready for the next tick
C11_OnlyTheTickEnds ==
    [][ProbeFault => (emitted' = emitted /\ data_buffer' = data_buffer
                      /\ pc' = "loop")]_vars

\* what the labels show before the first update_gui
InitialLabels == <<<<"Initializing">>, << >>, << >>, << >>, << >>, << >>>>

\* what the labels show once update_gui has published the i-th Sample
LabelsOfTick(i) ==
    LabelsOf(update_gui(emitted[i][2], emitted[i][3], emitted[i][4],
                        emitted[i][5], emitted[i][6],
                        SubSeq(emitted, ((i - 1) \div BUFFER_SIZE) * BUFFER_SIZE + 1, i)))

\* C12: whatever the GUI thread draws is the labels as one tick published
\* them (or as they were before the first publication): the fill level and
\* the five values it sees together belong to one and the same tick
C12_NoTornSample ==
    \/ seen = << >>
    \/ seen = InitialLabels
    \/ \E i \in 1 .. Len(emitted) : seen = LabelsOfTick(i)

\* C13: the loop is warming up before its first tick and never after it; the
\* first tick appends and publishes nothing and every later tick appends one
\* Sample and publishes one update, so after t >= 1 ticks there are t - 1 of
\* each
C13_WarmUpOnce ==
    /\ initial_cycle = (ticks = 0)
    /\ ticks >= 1 => (Len(emitted) = ticks - 1 /\ published = ticks - 1)

C13_Witness ==
    /\ pc = "loop"
    /\ ticks = BUFFER_SIZE + 2
    /\ published = BUFFER_SIZE + 1

\* rows this run has committed
NewRows == Len(metrics) - row0

\* C14: the rows this run has committed are, in id order, a prefix of the
\* Samples in the order the sampler emitted them; ids increase along the
\* table; and a transaction is open only when the loop has ended, so no flush
\* starts while another is in progress
C14_PersistedInOrder ==
    /\ NewRows <= Len(emitted)
    /\ \A i \in 1 .. NewRows : metrics[row0 + i].sample = emitted[i]
    /\ \A i \in 1 .. Len(metrics) - 1 : metrics[i].id < metrics[i + 1].id
    /\ txn # << >> => pc = "dead"

C14_Witness ==
    /\ pc = "loop"
    /\ row0 = BUFFER_SIZE
    /\ calls = 2
    /\ NewRows = 2 * BUFFER_SIZE

\* C15: every step leaves each committed row in place and unchanged, keeps
\* the table, and gives each new row an id above every id already there
C15_AppendOnly ==
    [][/\ tableExists => tableExists'
       /\ Len(metrics') >= Len(metrics)
       /\ SubSeq(metrics', 1, Len(metrics)) = metrics
       /\ \A i \in Len(metrics) + 1 .. Len(metrics') :
             \A j \in 1 .. Len(metrics) : metrics'[i].id > metrics[j].id]_vars

C15_Witness ==
    /\ row0 = BUFFER_SIZE
    /\ calls = 1
    /\ Len(metrics) = 2 * BUFFER_SIZE
    /\ txn = << >>

\* C16: while no write has failed, after t >= 1 ticks the rows of this run
\* followed by the buffer are exactly the t - 1 Samples emitted, in order,
\* with 60 * floor((t - 1) / 60) rows and (t - 1) mod 60 buffered Samples;
\* no flush is started on fewer than BUFFER_SIZE Samples
C16_NothingLostOrDuplicated ==
    /\ (pc = "loop" /\ ticks >= 1) =>
          /\ Len(emitted) = ticks - 1
          /\ NewRows = BUFFER_SIZE * ((ticks - 1) \div BUFFER_SIZE)
          /\ Len(data_buffer) = (ticks - 1) % BUFFER_SIZE
          /\ [i \in 1 .. NewRows |-> metrics[row0 + i].sample] \o data_buffer
                = emitted
    /\ calls > 0 => Len(lastBatch) >= BUFFER_SIZE

C16_Witness ==
    /\ pc = "loop"
    /\ ticks = BUFFER_SIZE + 10
    /\ Len(data_buffer) = 9

\* C17: the n-th published remaining value is BUFFER_SIZE minus the length
\* the buffer had right after that tick's append: it lies in
\* 0 .. BUFFER_SIZE - 1, goes down by one per emitting tick, is 0 on the tick
\* that fills the buffer and BUFFER_SIZE - 1 on the tick after
C17_RemainingCountsDown ==
    /\ published = 0 => remaining_time \in {<< >>, <<"Initializing">>}
    /\ published >= 1 =>
          /\ remaining_time =
                RemainingText(BUFFER_SIZE - (((published - 1) % BUFFER_SIZE) + 1))
          /\ remaining_time[2] \in 0 .. BUFFER_SIZE - 1
          /\ remaining_time =
                RemainingText(IF pc = "loop" /\ data_buffer = << >>
                              THEN 0
                              ELSE BUFFER_SIZE - Len(data_buffer))

C17_Witness ==
    /\ published = BUFFER_SIZE + 1
    /\ remaining_time = RemainingText(BUFFER_SIZE - 1)

\* Samples whose batch is complete within MaxTicks ticks
Horizon == BUFFER_SIZE * ((MaxTicks - 1) \div BUFFER_SIZE)

\* C18: when the sampler keeps running and nothing fails, an appended Sample
\* stays uncommitted for fewer than BUFFER_SIZE - 1 further appends, every
\* Sample appended is eventually a committed row (from the first append of a
\* batch on, all Samples of that batch eventually are rows), and one flush
\* after the other happens (each within the ticks explored)
C18_EventuallyCommitted ==
    /\ [](\A i \in 1 .. Len(emitted) :
             i > NewRows => Len(emitted) - i < BUFFER_SIZE - 1)
    /\ \A n \in 1 .. Horizon \div BUFFER_SIZE :
          (Len(emitted) > (n - 1) * BUFFER_SIZE)
              ~> (\A i \in (n - 1) * BUFFER_SIZE + 1 .. n * BUFFER_SIZE :
                     /\ i <= NewRows
                     /\ metrics[row0 + i].sample = emitted[i])
    /\ \A n \in 1 .. Horizon \div BUFFER_SIZE : <>(calls >= n)

C18_Witness ==
    /\ pc = "loop"
    /\ calls = 2
    /\ data_buffer = << >>
    /\ NewRows = 2 * BUFFER_SIZE

====
